---- MODULE Spec2Model ----
(***************************************************************************)
(* Alias registry (btn-group/address-alias).                               *)
(*                                                                         *)
(* The storage layer (src/src/state.rs) is modelled from its code: one     *)
(* flat byte-keyed store, two prefixed namespaces over it (the Alias Index *)
(* "aliases" and the Owner Index "addresses_aliases"), and the Bincode2    *)
(* encoding of the values.  Strings are modelled as their UTF-8 byte       *)
(* sequences, so String::as_bytes is the sequence itself.                  *)
(*                                                                         *)
(* The Registry Core (create / destroy / search) is not part of the        *)
(* sources at hand; it is modelled from spec.md section 4.4 on top of the  *)
(* storage layer.                                                          *)
(*                                                                         *)
(* op, result, pre and prevCreate are history variables: the last call,    *)
(* its outcome, the store before it, and the successful create (if any)    *)
(* that immediately preceded it.  pc is the position of the call in        *)
(* flight: "idle" between calls, else the write that comes next.           *)
(***************************************************************************)
EXTENDS Integers, Sequences, FiniteSets, TLC

VARIABLES storage, op, result, pre, prevCreate, pc

vars == <<storage, op, result, pre, prevCreate, pc>>

\* ---------------------------------------------------------------- bounds
NumAddrs == 2
NumAliases == 2
MaxIdxEntries == 2

\* ------------------------------------------------- values of the program
None == [some |-> FALSE]
Some(v) == [some |-> TRUE, val |-> v]

Ok(v) == [ok |-> TRUE, val |-> v]
Err(e) == [ok |-> FALSE, err |-> e]

\* pub struct Alias { human_address, avatar_url }
Alias(human_address, avatar_url) ==
    [human_address |-> human_address, avatar_url |-> avatar_url]

\* "aliases"
ALIASES_PREFIX == <<97, 108, 105, 97, 115, 101, 115>>
\* "addresses_aliases"
ADDRESSES_ALIASES_PREFIX ==
    <<97, 100, 100, 114, 101, 115, 115, 101, 115, 95, 97, 108, 105, 97, 115, 101, 115>>

\* The i-th string over the alphabet {"a", "b"}: "", "a", "b", "aa", "ab", ...
RECURSIVE StrOf(_)
StrOf(i) == IF i = 0 THEN <<>> ELSE StrOf((i - 1) \div 2) \o <<97 + ((i - 1) % 2)>>

\* Caller identities (HumanAddr) and alias strings the calls draw from.  Addrs
\* and Aliases overlap ("a"), and Aliases holds the empty string.  avatar_url
\* is drawn from the two variants of Option<String>: None and Some("aa").
Addrs == {StrOf(i) : i \in 1..NumAddrs}
Aliases == {StrOf(i) : i \in 0..(NumAliases - 1)}
Avatars == {None, Some(StrOf(3))}
SearchTypes == {"alias", "address", "phone"}
SearchValues == Addrs \cup Aliases

\* Keys the index operations are called with directly: the alias and address
\* strings and, in each index, a key that spells the other namespace's prefix.
IdxAliasKeys == Aliases \cup {<<0, 17>> \o ADDRESSES_ALIASES_PREFIX}
IdxOwnerKeys == Addrs \cup {<<0, 7>> \o ALIASES_PREFIX}

\* ------------------------------------------------------ Bincode2 encoding
\* u64, little endian, fixed width
RECURSIVE U64LEFrom(_, _)
U64LEFrom(n, i) == IF i > 8 THEN <<>> ELSE <<n % 256>> \o U64LEFrom(n \div 256, i + 1)
U64LE(n) == U64LEFrom(n, 1)

\* The u64 at the front of b (Len(b) >= 8).  A value of 2^24 or more is
\* longer than any input here and is reported as TooLong.
TooLong == -1
DeU64(b) ==
    IF \E i \in 4..8 : b[i] # 0 THEN TooLong
    ELSE b[1] + 256 * (b[2] + 256 * b[3])

\* String / Vec<u8>: length, then the bytes
SerBytes(s) == U64LE(Len(s)) \o s

\* Option<String>: tag byte, then the value
SerOption(o) == IF o.some THEN <<1>> \o SerBytes(o.val) ELSE <<0>>

SerAlias(a) == SerBytes(a.human_address) \o SerOption(a.avatar_url)

\* Decoders return Ok([val, rest]) or Err: the input is read front to back.
DeBytesFrom(b) ==
    IF Len(b) < 8 THEN Err("DecodeError")
    ELSE LET n == DeU64(b) IN
         IF n = TooLong \/ Len(b) < 8 + n THEN Err("DecodeError")
         ELSE Ok([val |-> SubSeq(b, 9, 8 + n), rest |-> SubSeq(b, 9 + n, Len(b))])

DeOptionFrom(b) ==
    IF Len(b) < 1 THEN Err("DecodeError")
    ELSE IF b[1] = 0 THEN Ok([val |-> None, rest |-> SubSeq(b, 2, Len(b))])
    ELSE IF b[1] = 1 THEN
         LET s == DeBytesFrom(SubSeq(b, 2, Len(b))) IN
         IF s.ok THEN Ok([val |-> Some(s.val.val), rest |-> s.val.rest]) ELSE s
    ELSE Err("DecodeError")

\* Bincode2::deserialize::<Vec<u8>>
DeBytes(b) == LET s == DeBytesFrom(b) IN IF s.ok THEN Ok(s.val.val) ELSE s

\* Bincode2::deserialize::<Alias>
DeAlias(b) ==
    LET h == DeBytesFrom(b) IN
    IF ~h.ok THEN h
    ELSE LET o == DeOptionFrom(h.val.rest) IN
         IF ~o.ok THEN o ELSE Ok(Alias(h.val.val, o.val.val))

\* Bincode2::serialize / deserialize at the type T the generic adapter is
\* used with (T is named as type_name::<T>() names it).  A String and a
\* Vec<u8> have the same encoding.
Serialize(T, value) == IF T = "Alias" THEN SerAlias(value) ELSE SerBytes(value)
Deserialize(T, b) == IF T = "Alias" THEN DeAlias(b) ELSE DeBytes(b)

\* ------------------------------------------------ the flat byte-keyed store
EmptyStore == [k \in {} |-> <<>>]

\* Storage::get / set / remove
StoreGet(st, k) == IF k \in DOMAIN st THEN Some(st[k]) ELSE None
StoreSet(st, k, v) == [x \in (DOMAIN st) \cup {k} |-> IF x = k THEN v ELSE st[x]]
StoreRemove(st, k) == [x \in (DOMAIN st) \ {k} |-> st[x]]

\* PrefixedStorage::new(namespace, storage): every key is prepended with the
\* namespace, itself prefixed by its length as two big-endian bytes.
to_length_prefixed(ns) == <<Len(ns) \div 256, Len(ns) % 256>> \o ns
PrefixedKey(ns, key) == to_length_prefixed(ns) \o key

\* ------------------------------------------------------ encoded adapter
\* may_load written as load: an absent key is an error
may_load_AbsentIsError(T, st, ns, key) ==
    LET v == StoreGet(st, PrefixedKey(ns, key)) IN
    IF v.some
    THEN LET d == Deserialize(T, v.val) IN IF d.ok THEN Ok(Some(d.val)) ELSE d
    ELSE Err("NotFound")

\* may_load: Ok(None) when the key is absent, else the decoded value or the
\* decoder's error.
may_load(T, st, ns, key) ==
    LET v == StoreGet(st, PrefixedKey(ns, key)) IN
    IF v.some
    THEN LET d == Deserialize(T, v.val) IN IF d.ok THEN Ok(Some(d.val)) ELSE d
    ELSE Ok(None)

\* type_name::<T>(): the types are named here by the names the code gives them
type_name(T) == T

\* StdError::not_found(kind)
NotFound(kind) == [ok |-> FALSE, err |-> "NotFound", kind |-> kind]

\* load that reports an absent key without the name of the type
load_NoTypeName(T, st, ns, key) ==
    LET v == StoreGet(st, PrefixedKey(ns, key)) IN
    IF v.some THEN Deserialize(T, v.val) ELSE Err("NotFound")

\* load: the decoded value, the decoder's error, or NotFound with the name of
\* the type asked for when the key is absent.
load(T, st, ns, key) ==
    LET v == StoreGet(st, PrefixedKey(ns, key)) IN
    IF v.some THEN Deserialize(T, v.val) ELSE NotFound(type_name(T))

remove(st, ns, key) == StoreRemove(st, PrefixedKey(ns, key))

Unit == [unit |-> TRUE]

\* save that keeps the value a key already has
save_KeepExisting(T, st, ns, key, value) ==
    [store |-> IF PrefixedKey(ns, key) \in DOMAIN st THEN st
               ELSE StoreSet(st, PrefixedKey(ns, key), Serialize(T, value)),
     res |-> Ok(Unit)]

\* save: the serializers of the two value types are total, save returns Ok(())
save(T, st, ns, key, value) ==
    [store |-> StoreSet(st, PrefixedKey(ns, key), Serialize(T, value)), res |-> Ok(Unit)]

\* `.ok().unwrap()` on a decode error aborts the call
Panic == [panic |-> TRUE]
IsPanic(r) == "panic" \in DOMAIN r

\* ------------------------------------------------------------ Alias Index
ReadonlyAliasesStorageImpl_get(st, key) ==
    LET r == may_load("Alias", st, ALIASES_PREFIX, key) IN
    IF r.ok THEN r.val ELSE Panic

AliasesReadonlyStorage_get_alias(st, key) == ReadonlyAliasesStorageImpl_get(st, key)

\* get_alias reading the other namespace
AliasesStorage_get_alias_OwnerNs(st, key) ==
    LET r == may_load("Alias", st, ADDRESSES_ALIASES_PREFIX, key) IN
    IF r.ok THEN r.val ELSE Panic

AliasesStorage_get_alias(st, key) == ReadonlyAliasesStorageImpl_get(st, key)

\* remove_alias removing from the other namespace
AliasesStorage_remove_alias_OwnerNs(st, key) == remove(st, ADDRESSES_ALIASES_PREFIX, key)

AliasesStorage_remove_alias(st, key) == remove(st, ALIASES_PREFIX, key)

\* set_alias writing into the other namespace
AliasesStorage_set_alias_OwnerNs(st, key, value) ==
    save("Alias", st, ADDRESSES_ALIASES_PREFIX, key, value).store

\* set_alias whose save failed: nothing is written, nothing is reported
AliasesStorage_set_alias_Dropped(st, key, value) == st

\* the result of save is dropped by `.ok()`
AliasesStorage_set_alias(st, key, value) ==
    save("Alias", st, ALIASES_PREFIX, key, value).store

\* ------------------------------------------------------------ Owner Index
\* the value is saved as a String and read back as a Vec<u8>
ReadonlyAddressesAliasesStorageImpl_get(st, key) ==
    LET r == may_load("Vec<u8>", st, ADDRESSES_ALIASES_PREFIX, key) IN
    IF r.ok THEN r.val ELSE Panic

\* get_alias reading the other namespace
AddressesAliasesReadonlyStorage_get_alias_AliasNs(st, key) ==
    LET r == may_load("Vec<u8>", st, ALIASES_PREFIX, key) IN
    IF r.ok THEN r.val ELSE Panic

AddressesAliasesReadonlyStorage_get_alias(st, key) ==
    ReadonlyAddressesAliasesStorageImpl_get(st, key)

\* get_alias reading the other namespace
AddressesAliasesStorage_get_alias_AliasNs(st, key) ==
    LET r == may_load("Vec<u8>", st, ALIASES_PREFIX, key) IN
    IF r.ok THEN r.val ELSE Panic

AddressesAliasesStorage_get_alias(st, key) ==
    ReadonlyAddressesAliasesStorageImpl_get(st, key)

\* remove_alias that removes nothing
AddressesAliasesStorage_remove_alias_Noop(st, key) == st

AddressesAliasesStorage_remove_alias(st, key) == remove(st, ADDRESSES_ALIASES_PREFIX, key)

\* set_alias whose save failed: nothing is written, nothing is reported
AddressesAliasesStorage_set_alias_Dropped(st, key, value) == st

AddressesAliasesStorage_set_alias(st, key, value) ==
    save("String", st, ADDRESSES_ALIASES_PREFIX, key, value).store

\* ------------------------------------------------- contents of the indexes
\* What the two namespaces hold, read off the flat store itself.
HasPrefix(k, p) == Len(k) >= Len(p) /\ SubSeq(k, 1, Len(p)) = p

IndexKeys(st, ns) ==
    LET p == to_length_prefixed(ns) IN
    {SubSeq(k, Len(p) + 1, Len(k)) : k \in {x \in DOMAIN st : HasPrefix(x, p)}}

\* aliases that have an Alias Index entry, and the record stored for one
AliasIndexKeys(st) == IndexKeys(st, ALIASES_PREFIX)
AliasRecordAt(st, alias) == DeAlias(st[PrefixedKey(ALIASES_PREFIX, alias)]).val

\* addresses that have an Owner Index entry, and the alias stored for one
OwnerIndexKeys(st) == IndexKeys(st, ADDRESSES_ALIASES_PREFIX)
OwnerAliasAt(st, addr) == DeBytes(st[PrefixedKey(ADDRESSES_ALIASES_PREFIX, addr)]).val

\* ---------------------------------------------------------- Registry Core
\* (spec.md 4.4)  Each operation returns the store it leaves and its result.
\* A call that aborts is rolled back by the host: the store is the one it
\* started from.
Aborted(st) == [store |-> st, res |-> Err("Aborted")]

create(st, caller, alias, avatar) ==
    LET a == AliasesStorage_get_alias(st, alias) IN
    IF IsPanic(a) THEN Aborted(st)
    ELSE IF a.some THEN [store |-> st, res |-> Err("AliasTaken")]
    ELSE LET o == AddressesAliasesStorage_get_alias(st, caller) IN
         IF IsPanic(o) THEN Aborted(st)
         ELSE IF o.some THEN [store |-> st, res |-> Err("AddressAlreadyHasAlias")]
         ELSE LET rec == Alias(caller, avatar)
                  s1 == AliasesStorage_set_alias(st, alias, rec)
                  s2 == AddressesAliasesStorage_set_alias(s1, caller, alias)
              IN [store |-> s2, res |-> Ok(rec)]

destroy(st, caller, alias) ==
    LET a == AliasesStorage_get_alias(st, alias) IN
    IF IsPanic(a) THEN Aborted(st)
    ELSE IF ~a.some THEN [store |-> st, res |-> Err("AliasNotFound")]
    ELSE IF a.val.human_address # caller THEN [store |-> st, res |-> Err("NotOwner")]
    ELSE LET s1 == AliasesStorage_remove_alias(st, alias)
             s2 == AddressesAliasesStorage_remove_alias(s1, caller)
         IN [store |-> s2, res |-> Ok([status |-> "Success"])]

\* search that treats every other search type as "alias"
search_DefaultAlias(st, search_type, search_value) ==
    IF search_type = "address" THEN
        LET o == AddressesAliasesReadonlyStorage_get_alias(st, search_value) IN
        IF IsPanic(o) THEN Err("Aborted")
        ELSE IF ~o.some THEN Err("AliasNotFound")
        ELSE LET a == AliasesReadonlyStorage_get_alias(st, o.val) IN
             IF IsPanic(a) THEN Err("Aborted")
             ELSE IF a.some THEN Ok([kind |-> "address", record |-> a.val])
             ELSE Err("InternalInconsistency")
    ELSE
        LET a == AliasesReadonlyStorage_get_alias(st, search_value) IN
        IF IsPanic(a) THEN Err("Aborted")
        ELSE IF a.some THEN Ok([kind |-> "alias", record |-> a.val])
        ELSE Err("AliasNotFound")

search(st, search_type, search_value) ==
    IF search_type = "alias" THEN
        LET a == AliasesReadonlyStorage_get_alias(st, search_value) IN
        IF IsPanic(a) THEN Err("Aborted")
        ELSE IF a.some THEN Ok([kind |-> "alias", record |-> a.val])
        ELSE Err("AliasNotFound")
    ELSE IF search_type = "address" THEN
        LET o == AddressesAliasesReadonlyStorage_get_alias(st, search_value) IN
        IF IsPanic(o) THEN Err("Aborted")
        ELSE IF ~o.some THEN Err("AliasNotFound")
        ELSE LET a == AliasesReadonlyStorage_get_alias(st, o.val) IN
             IF IsPanic(a) THEN Err("Aborted")
             ELSE IF a.some THEN Ok([kind |-> "address", record |-> a.val])
             ELSE Err("InternalInconsistency")
    ELSE Err("UnsupportedSearchType")

\* ---------------------------------------------------------------- actions
\* the successful create, if the call just recorded in op was one
LastCreate ==
    IF op.name = "create" /\ result.ok
    THEN Some([caller |-> op.caller, alias |-> op.alias, pre |-> pre])
    ELSE None

Init ==
    /\ storage = EmptyStore
    /\ op = [name |-> "init"]
    /\ result = Ok(Unit)
    /\ pre = EmptyStore
    /\ prevCreate = None
    /\ pc = "idle"

\* HandleMsg::Create { alias, avatar_url } sent by caller
Create(caller, alias, avatar) ==
    LET r == create(storage, caller, alias, avatar) IN
    /\ pc = "idle"
    /\ storage' = r.store
    /\ result' = r.res
    /\ op' = [name |-> "create", caller |-> caller, alias |-> alias, avatar |-> avatar]
    /\ pre' = storage
    /\ prevCreate' = LastCreate
    /\ pc' = pc

\* HandleMsg::Destroy { alias } sent by caller
Destroy(caller, alias) ==
    LET r == destroy(storage, caller, alias) IN
    /\ pc = "idle"
    /\ storage' = r.store
    /\ result' = r.res
    /\ op' = [name |-> "destroy", caller |-> caller, alias |-> alias]
    /\ pre' = storage
    /\ prevCreate' = LastCreate
    /\ pc' = pc

\* QueryMsg::Search { search_type, search_value }
Search(search_type, search_value) ==
    /\ pc = "idle"
    /\ storage' = storage
    /\ result' = search(storage, search_type, search_value)
    /\ op' = [name |-> "search", search_type |-> search_type, search_value |-> search_value]
    /\ pre' = storage
    /\ prevCreate' = LastCreate
    /\ pc' = pc

Next ==
    \/ \E caller \in Addrs, alias \in Aliases, avatar \in Avatars : Create(caller, alias, avatar)
    \/ \E caller \in Addrs, alias \in Aliases : Destroy(caller, alias)
    \/ \E search_type \in SearchTypes, search_value \in SearchValues :
           Search(search_type, search_value)

Spec == Init /\ [][Next]_vars

\* create and destroy one storage write at a time (spec.md 4.4, steps 5 and
\* 3).  A call starts only between calls: the host runs each call to its end
\* before the next one, search included, sees the store (spec.md 5).
Pending == [pending |-> TRUE]

CreateBegin(caller, alias, avatar) ==
    LET r == create(storage, caller, alias, avatar) IN
    /\ pc = "idle"
    /\ storage' = storage
    /\ result' = IF r.res.ok THEN Pending ELSE r.res
    /\ op' = [name |-> "create", caller |-> caller, alias |-> alias, avatar |-> avatar]
    /\ pre' = storage
    /\ prevCreate' = None
    /\ pc' = IF r.res.ok THEN "create_alias" ELSE "idle"

CreateWriteAlias ==
    /\ pc = "create_alias"
    /\ storage' = AliasesStorage_set_alias(storage, op.alias, Alias(op.caller, op.avatar))
    /\ pc' = "create_owner"
    /\ UNCHANGED <<op, result, pre, prevCreate>>

CreateWriteOwner ==
    /\ pc = "create_owner"
    /\ storage' = AddressesAliasesStorage_set_alias(storage, op.caller, op.alias)
    /\ result' = Ok(Alias(op.caller, op.avatar))
    /\ pc' = "idle"
    /\ UNCHANGED <<op, pre, prevCreate>>

DestroyBegin(caller, alias) ==
    LET r == destroy(storage, caller, alias) IN
    /\ pc = "idle"
    /\ storage' = storage
    /\ result' = IF r.res.ok THEN Pending ELSE r.res
    /\ op' = [name |-> "destroy", caller |-> caller, alias |-> alias]
    /\ pre' = storage
    /\ prevCreate' = None
    /\ pc' = IF r.res.ok THEN "destroy_alias" ELSE "idle"

DestroyRemoveAlias ==
    /\ pc = "destroy_alias"
    /\ storage' = AliasesStorage_remove_alias(storage, op.alias)
    /\ pc' = "destroy_owner"
    /\ UNCHANGED <<op, result, pre, prevCreate>>

DestroyRemoveOwner ==
    /\ pc = "destroy_owner"
    /\ storage' = AddressesAliasesStorage_remove_alias(storage, op.caller)
    /\ result' = Ok([status |-> "Success"])
    /\ pc' = "idle"
    /\ UNCHANGED <<op, pre, prevCreate>>

NextSteps ==
    \/ \E caller \in Addrs, alias \in Aliases, avatar \in Avatars :
           CreateBegin(caller, alias, avatar)
    \/ CreateWriteAlias
    \/ CreateWriteOwner
    \/ \E caller \in Addrs, alias \in Aliases : DestroyBegin(caller, alias)
    \/ DestroyRemoveAlias
    \/ DestroyRemoveOwner
    \/ \E search_type \in SearchTypes, search_value \in SearchValues :
           Search(search_type, search_value)

SpecSteps == Init /\ [][NextSteps]_vars

\* The index operations of the storage module called one at a time, as its
\* public interface allows, with search run against whatever they leave.
\* The store is kept to MaxIdxEntries entries.
IdxSetAlias(key, value) ==
    /\ Cardinality(DOMAIN storage) < MaxIdxEntries
    /\ storage' = AliasesStorage_set_alias(storage, key, value)
    /\ result' = Ok(Unit)
    /\ op' = [name |-> "aliases.set_alias", key |-> key, value |-> value]
    /\ pre' = storage
    /\ prevCreate' = None
    /\ pc' = pc

IdxRemoveAlias(key) ==
    /\ storage' = AliasesStorage_remove_alias(storage, key)
    /\ result' = Ok(Unit)
    /\ op' = [name |-> "aliases.remove_alias", key |-> key]
    /\ pre' = storage
    /\ prevCreate' = None
    /\ pc' = pc

IdxSetOwner(key, value) ==
    /\ Cardinality(DOMAIN storage) < MaxIdxEntries
    /\ storage' = AddressesAliasesStorage_set_alias(storage, key, value)
    /\ result' = Ok(Unit)
    /\ op' = [name |-> "addresses_aliases.set_alias", key |-> key, value |-> value]
    /\ pre' = storage
    /\ prevCreate' = None
    /\ pc' = pc

IdxRemoveOwner(key) ==
    /\ storage' = AddressesAliasesStorage_remove_alias(storage, key)
    /\ result' = Ok(Unit)
    /\ op' = [name |-> "addresses_aliases.remove_alias", key |-> key]
    /\ pre' = storage
    /\ prevCreate' = None
    /\ pc' = pc

NextIdx ==
    \/ \E key \in IdxAliasKeys, h \in Addrs, avatar \in Avatars :
           IdxSetAlias(key, Alias(h, avatar))
    \/ \E key \in IdxAliasKeys : IdxRemoveAlias(key)
    \/ \E key \in IdxOwnerKeys, value \in Aliases : IdxSetOwner(key, value)
    \/ \E key \in IdxOwnerKeys : IdxRemoveOwner(key)
    \/ \E search_type \in SearchTypes, search_value \in SearchValues :
           Search(search_type, search_value)

SpecIdx == Init /\ [][NextIdx]_vars

\* The generic adapter functions called directly, at either value type and
\* under either namespace, with the getters of the two indexes run against
\* what they leave.  A value saved at one type can be read at the other.
\* The store is kept to MaxIdxEntries entries.
Namespaces == {ALIASES_PREFIX, ADDRESSES_ALIASES_PREFIX}
LoadTypes == {"Alias", "Vec<u8>"}
AdapterValues(T) ==
    IF T = "Alias" THEN {Alias(StrOf(1), avatar) : avatar \in Avatars} ELSE {StrOf(1)}

AdapterSave(T, ns, key, value) ==
    /\ Cardinality(DOMAIN storage) < MaxIdxEntries
    /\ storage' = save(T, storage, ns, key, value).store
    /\ result' = save(T, storage, ns, key, value).res
    /\ op' = [name |-> "save", T |-> T, ns |-> ns, key |-> key, value |-> value]
    /\ pre' = storage
    /\ prevCreate' = None
    /\ pc' = pc

AdapterRemove(ns, key) ==
    /\ storage' = remove(storage, ns, key)
    /\ result' = Ok(Unit)
    /\ op' = [name |-> "remove", ns |-> ns, key |-> key]
    /\ pre' = storage
    /\ prevCreate' = None
    /\ pc' = pc

AdapterLoad(T, ns, key) ==
    /\ storage' = storage
    /\ result' = load(T, storage, ns, key)
    /\ op' = [name |-> "load", T |-> T, ns |-> ns, key |-> key]
    /\ pre' = storage
    /\ prevCreate' = None
    /\ pc' = pc

AdapterMayLoad(T, ns, key) ==
    /\ storage' = storage
    /\ result' = may_load(T, storage, ns, key)
    /\ op' = [name |-> "may_load", T |-> T, ns |-> ns, key |-> key]
    /\ pre' = storage
    /\ prevCreate' = None
    /\ pc' = pc

\* AliasesReadonlyStorage::get_alias: an Option, or the call aborts
IdxGetAlias(key) ==
    /\ storage' = storage
    /\ result' = AliasesReadonlyStorage_get_alias(storage, key)
    /\ op' = [name |-> "aliases.get_alias", key |-> key]
    /\ pre' = storage
    /\ prevCreate' = None
    /\ pc' = pc

\* AddressesAliasesReadonlyStorage::get_alias: an Option, or the call aborts
IdxGetOwner(key) ==
    /\ storage' = storage
    /\ result' = AddressesAliasesReadonlyStorage_get_alias(storage, key)
    /\ op' = [name |-> "addresses_aliases.get_alias", key |-> key]
    /\ pre' = storage
    /\ prevCreate' = None
    /\ pc' = pc

NextAdapter ==
    \/ \E T \in {"Alias", "String"}, ns \in Namespaces, key \in Aliases :
           \E value \in AdapterValues(T) : AdapterSave(T, ns, key, value)
    \/ \E ns \in Namespaces, key \in Aliases : AdapterRemove(ns, key)
    \/ \E T \in LoadTypes, ns \in Namespaces, key \in Aliases : AdapterLoad(T, ns, key)
    \/ \E T \in LoadTypes, ns \in Namespaces, key \in Aliases : AdapterMayLoad(T, ns, key)
    \/ \E key \in Aliases : IdxGetAlias(key)
    \/ \E key \in Aliases : IdxGetOwner(key)

SpecAdapter == Init /\ [][NextAdapter]_vars

\* ------------------------------------------------------------ properties

\* C1  Bidirectional consistency: every Owner Index entry (addr -> alias) has
\* an Alias Index entry for alias whose human_address is addr, and every Alias
\* Index entry (alias -> record) has an Owner Index entry for
\* record.human_address that holds alias.
Consistent(st) ==
    /\ \A addr \in OwnerIndexKeys(st) :
           /\ OwnerAliasAt(st, addr) \in AliasIndexKeys(st)
           /\ AliasRecordAt(st, OwnerAliasAt(st, addr)).human_address = addr
    /\ \A alias \in AliasIndexKeys(st) :
           /\ AliasRecordAt(st, alias).human_address \in OwnerIndexKeys(st)
           /\ OwnerAliasAt(st, AliasRecordAt(st, alias).human_address) = alias

BidirectionalConsistency == Consistent(storage)

\* a destroy succeeded and left another claimed alias behind
BidirectionalConsistencyWitness ==
    /\ op.name = "destroy"
    /\ result.ok
    /\ AliasIndexKeys(storage) # {}
    /\ OwnerIndexKeys(storage) # {}

\* C2  Uniqueness: no two Owner Index entries hold the same alias, every
\* claimed alias is held by exactly one Owner Index entry, and no address is
\* the owner in two Alias Index records.
Uniqueness ==
    /\ \A a1, a2 \in OwnerIndexKeys(storage) :
           a1 # a2 => OwnerAliasAt(storage, a1) # OwnerAliasAt(storage, a2)
    /\ \A alias \in AliasIndexKeys(storage) :
           Cardinality({a \in OwnerIndexKeys(storage) : OwnerAliasAt(storage, a) = alias}) = 1
    /\ \A alias1, alias2 \in AliasIndexKeys(storage) :
           alias1 # alias2 =>
               AliasRecordAt(storage, alias1).human_address
                   # AliasRecordAt(storage, alias2).human_address

\* two addresses hold an alias each, and a further create was turned down
UniquenessWitness ==
    /\ op.name = "create"
    /\ ~result.ok
    /\ Cardinality(OwnerIndexKeys(storage)) >= 2
    /\ Cardinality(AliasIndexKeys(storage)) >= 2

\* C3  create of an alias that already has an Alias Index entry fails with
\* AliasTaken, whoever calls, and leaves the store as it was.
AliasTakenRejected ==
    (op.name = "create" /\ op.alias \in AliasIndexKeys(pre)) =>
        (result = Err("AliasTaken") /\ storage = pre)

\* the caller of the rejected create owns another alias
AliasTakenRejectedWitness ==
    /\ op.name = "create"
    /\ op.alias \in AliasIndexKeys(pre)
    /\ op.caller \in OwnerIndexKeys(pre)
    /\ OwnerAliasAt(pre, op.caller) # op.alias
    /\ result = Err("AliasTaken")

\* C4  create of an unclaimed alias by a caller that has an Owner Index entry
\* fails with AddressAlreadyHasAlias and leaves the store as it was.
AddressAlreadyHasAliasRejected ==
    (op.name = "create" /\ op.alias \notin AliasIndexKeys(pre)
                        /\ op.caller \in OwnerIndexKeys(pre)) =>
        (/\ result = Err("AddressAlreadyHasAlias")
         /\ storage = pre
         /\ op.alias \notin AliasIndexKeys(storage))

AddressAlreadyHasAliasRejectedWitness ==
    /\ op.name = "create"
    /\ op.alias \notin AliasIndexKeys(pre)
    /\ op.caller \in OwnerIndexKeys(pre)
    /\ result = Err("AddressAlreadyHasAlias")

\* C5  destroy of a claimed alias by a caller other than its stored owner
\* fails with NotOwner and leaves the store as it was.
NotOwnerRejected ==
    (op.name = "destroy" /\ op.alias \in AliasIndexKeys(pre)
                         /\ AliasRecordAt(pre, op.alias).human_address # op.caller) =>
        (/\ result = Err("NotOwner")
         /\ storage = pre
         /\ op.alias \in AliasIndexKeys(storage)
         /\ AliasRecordAt(pre, op.alias).human_address \in OwnerIndexKeys(storage))

NotOwnerRejectedWitness ==
    /\ op.name = "destroy"
    /\ op.alias \in AliasIndexKeys(pre)
    /\ AliasRecordAt(pre, op.alias).human_address # op.caller
    /\ result = Err("NotOwner")

\* C6  destroy of an alias that has no Alias Index entry fails with
\* AliasNotFound and leaves the store as it was.
AliasNotFoundRejected ==
    (op.name = "destroy" /\ op.alias \notin AliasIndexKeys(pre)) =>
        (result = Err("AliasNotFound") /\ storage = pre)

\* the caller of the rejected destroy owns a different alias
AliasNotFoundRejectedWitness ==
    /\ op.name = "destroy"
    /\ op.alias \notin AliasIndexKeys(pre)
    /\ op.caller \in OwnerIndexKeys(pre)
    /\ result = Err("AliasNotFound")
    /\ op.caller \in OwnerIndexKeys(storage)

\* C7  Round trip: a destroy(A, alias) that immediately follows a successful
\* create(A, alias, avatar) succeeds and leaves the store that the create
\* started from, with neither entry present.
CreateDestroyRoundTrip ==
    (op.name = "destroy" /\ prevCreate.some
        /\ prevCreate.val.caller = op.caller /\ prevCreate.val.alias = op.alias) =>
        (/\ result.ok
         /\ storage = prevCreate.val.pre
         /\ op.alias \notin AliasIndexKeys(storage)
         /\ op.caller \notin OwnerIndexKeys(storage))

\* such a round trip happened in a store that holds another alias
CreateDestroyRoundTripWitness ==
    /\ op.name = "destroy"
    /\ prevCreate.some
    /\ prevCreate.val.caller = op.caller
    /\ prevCreate.val.alias = op.alias
    /\ result.ok
    /\ AliasIndexKeys(prevCreate.val.pre) # {}

\* C8  Search equivalence: for every claimed alias a, with record r,
\* search("alias", a) and search("address", r.human_address) both succeed and
\* both return r; a search call that names a claimed alias or its owner
\* returns that record.
SearchEquivalence ==
    /\ \A alias \in AliasIndexKeys(storage) :
           LET r == AliasRecordAt(storage, alias)
               byAlias == search(storage, "alias", alias)
               byAddress == search(storage, "address", r.human_address)
           IN /\ byAlias.ok /\ byAlias.val.record = r
              /\ byAddress.ok /\ byAddress.val.record = r
    /\ (op.name = "search" /\ op.search_type = "alias"
           /\ op.search_value \in AliasIndexKeys(storage)) =>
           (result.ok /\ result.val.record = AliasRecordAt(storage, op.search_value))
    /\ (op.name = "search" /\ op.search_type = "address"
           /\ \E alias \in AliasIndexKeys(storage) :
                  AliasRecordAt(storage, alias).human_address = op.search_value) =>
           (/\ result.ok
            /\ \E alias \in AliasIndexKeys(storage) :
                   result.val.record = AliasRecordAt(storage, alias)
            /\ result.val.record.human_address = op.search_value)

\* a search by address returned a record that carries an avatar
SearchEquivalenceWitness ==
    /\ op.name = "search"
    /\ op.search_type = "address"
    /\ result.ok
    /\ result.val.record.avatar_url.some
    /\ result.val.record.human_address = op.search_value

\* C9  search with a search type other than "alias" and "address" fails with
\* UnsupportedSearchType and leaves the store as it was.
UnsupportedSearchTypeRejected ==
    (op.name = "search" /\ op.search_type \notin {"alias", "address"}) =>
        (result = Err("UnsupportedSearchType") /\ storage = pre)

\* the value searched for is a claimed alias
UnsupportedSearchTypeRejectedWitness ==
    /\ op.name = "search"
    /\ op.search_type \notin {"alias", "address"}
    /\ op.search_value \in AliasIndexKeys(storage)
    /\ result = Err("UnsupportedSearchType")

\* C10  search("address", addr): when the Owner Index has an entry for addr
\* and the Alias Index has none for the alias it holds, the result is
\* InternalInconsistency; the result is AliasNotFound only when the Owner Index
\* has no entry for addr.
DanglingOwnerEntry(st, addr) ==
    addr \in OwnerIndexKeys(st) /\ OwnerAliasAt(st, addr) \notin AliasIndexKeys(st)

InconsistencyIsDistinct ==
    (op.name = "search" /\ op.search_type = "address") =>
        (/\ DanglingOwnerEntry(storage, op.search_value) =>
                result = Err("InternalInconsistency")
         /\ result = Err("AliasNotFound") => op.search_value \notin OwnerIndexKeys(storage))

InconsistencyIsDistinctWitness ==
    /\ op.name = "search"
    /\ op.search_type = "address"
    /\ DanglingOwnerEntry(storage, op.search_value)
    /\ result = Err("InternalInconsistency")

\* C17  Effect of a successful create: when alias has no Alias Index entry
\* and caller has no Owner Index entry, create(caller, alias, avatar) returns
\* the record {caller, avatar}; afterwards the Alias Index holds exactly that
\* record under alias, the Owner Index holds alias under caller, and every
\* other entry of the store is as before.
SuccessfulCreateEffect ==
    (op.name = "create" /\ op.alias \notin AliasIndexKeys(pre)
                        /\ op.caller \notin OwnerIndexKeys(pre)) =>
        (/\ result = Ok(Alias(op.caller, op.avatar))
         /\ DOMAIN storage = (DOMAIN pre) \cup {PrefixedKey(ALIASES_PREFIX, op.alias),
                                                PrefixedKey(ADDRESSES_ALIASES_PREFIX, op.caller)}
         /\ AliasIndexKeys(storage) = AliasIndexKeys(pre) \cup {op.alias}
         /\ OwnerIndexKeys(storage) = OwnerIndexKeys(pre) \cup {op.caller}
         /\ AliasRecordAt(storage, op.alias) = Alias(op.caller, op.avatar)
         /\ OwnerAliasAt(storage, op.caller) = op.alias
         /\ \A k \in DOMAIN pre : storage[k] = pre[k])

\* a create with an avatar succeeded in a store that already held an alias
SuccessfulCreateEffectWitness ==
    /\ op.name = "create"
    /\ op.alias \notin AliasIndexKeys(pre)
    /\ op.caller \notin OwnerIndexKeys(pre)
    /\ op.avatar.some
    /\ result.ok
    /\ AliasIndexKeys(pre) # {}

\* C18  Effect of a successful destroy: destroy(caller, alias) by the owner
\* succeeds and removes exactly the Alias Index entry of alias and the Owner
\* Index entry keyed by caller; every other entry is as before; afterwards any
\* address without an alias can claim alias, and caller can claim any
\* unclaimed alias.
SuccessfulDestroyEffect ==
    (op.name = "destroy" /\ op.alias \in AliasIndexKeys(pre)
                         /\ AliasRecordAt(pre, op.alias).human_address = op.caller) =>
        (/\ result = Ok([status |-> "Success"])
         /\ DOMAIN storage = (DOMAIN pre) \ {PrefixedKey(ALIASES_PREFIX, op.alias),
                                             PrefixedKey(ADDRESSES_ALIASES_PREFIX, op.caller)}
         /\ \A k \in DOMAIN storage : storage[k] = pre[k]
         /\ op.alias \notin AliasIndexKeys(storage)
         /\ op.caller \notin OwnerIndexKeys(storage)
         /\ \A addr \in Addrs, avatar \in Avatars :
                addr \notin OwnerIndexKeys(storage) =>
                    create(storage, addr, op.alias, avatar).res = Ok(Alias(addr, avatar))
         /\ \A alias \in Aliases, avatar \in Avatars :
                alias \notin AliasIndexKeys(storage) =>
                    create(storage, op.caller, alias, avatar).res = Ok(Alias(op.caller, avatar)))

\* the owner destroyed its alias while another address kept its own
SuccessfulDestroyEffectWitness ==
    /\ op.name = "destroy"
    /\ op.alias \in AliasIndexKeys(pre)
    /\ AliasRecordAt(pre, op.alias).human_address = op.caller
    /\ result.ok
    /\ OwnerIndexKeys(storage) # {}

\* C13  Index set is an unconditional upsert: after set(k, v) on an index,
\* get(k) on that index returns exactly v, whether or not k had an entry, and
\* get of every other key of that index is as before.
IndexSetIsUpsert ==
    /\ op.name = "aliases.set_alias" =>
           /\ AliasesStorage_get_alias(storage, op.key) = Some(op.value)
           /\ AliasesReadonlyStorage_get_alias(storage, op.key) = Some(op.value)
           /\ \A k \in IdxAliasKeys \ {op.key} :
                  AliasesStorage_get_alias(storage, k) = AliasesStorage_get_alias(pre, k)
    /\ op.name = "addresses_aliases.set_alias" =>
           /\ AddressesAliasesStorage_get_alias(storage, op.key) = Some(op.value)
           /\ \A k \in IdxOwnerKeys \ {op.key} :
                  AddressesAliasesStorage_get_alias(storage, k)
                      = AddressesAliasesStorage_get_alias(pre, k)

\* a set replaced the different record its key had
IndexSetIsUpsertWitness ==
    /\ op.name = "aliases.set_alias"
    /\ op.key \in AliasIndexKeys(pre)
    /\ AliasRecordAt(pre, op.key) # op.value
    /\ AliasRecordAt(storage, op.key) = op.value

\* C14  Index remove is an unconditional delete: after remove(k), get(k)
\* returns absence; when k had no entry the whole store is as before and no
\* error is raised; a second remove(k) changes nothing; every entry under
\* another key is as before.
RemoveEffect(k, flatKey, getAfter, removedAgain, hadEntry) ==
    /\ getAfter = None
    /\ result = Ok(Unit)
    /\ ~hadEntry => storage = pre
    /\ removedAgain = storage
    /\ DOMAIN storage = (DOMAIN pre) \ {flatKey}
    /\ \A x \in DOMAIN storage : storage[x] = pre[x]

IndexRemoveIsDelete ==
    /\ op.name = "aliases.remove_alias" =>
           RemoveEffect(op.key, PrefixedKey(ALIASES_PREFIX, op.key),
                        AliasesStorage_get_alias(storage, op.key),
                        AliasesStorage_remove_alias(storage, op.key),
                        op.key \in AliasIndexKeys(pre))
    /\ op.name = "addresses_aliases.remove_alias" =>
           RemoveEffect(op.key, PrefixedKey(ADDRESSES_ALIASES_PREFIX, op.key),
                        AddressesAliasesStorage_get_alias(storage, op.key),
                        AddressesAliasesStorage_remove_alias(storage, op.key),
                        op.key \in OwnerIndexKeys(pre))

\* a remove of a key the Alias Index did not have, which the Owner Index had
IndexRemoveIsDeleteWitness ==
    /\ op.name = "aliases.remove_alias"
    /\ op.key \notin AliasIndexKeys(pre)
    /\ op.key \in OwnerIndexKeys(pre)
    /\ storage = pre

\* C15  Namespace isolation: a set or remove of any key in one index leaves
\* get of every key in the other index as before, the same key and keys that
\* spell a prefix included.
NamespaceIsolation ==
    /\ op.name \in {"aliases.set_alias", "aliases.remove_alias"} =>
           /\ OwnerIndexKeys(storage) = OwnerIndexKeys(pre)
           /\ \A k \in IdxOwnerKeys \cup IdxAliasKeys :
                  AddressesAliasesStorage_get_alias(storage, k)
                      = AddressesAliasesStorage_get_alias(pre, k)
    /\ op.name \in {"addresses_aliases.set_alias", "addresses_aliases.remove_alias"} =>
           /\ AliasIndexKeys(storage) = AliasIndexKeys(pre)
           /\ \A k \in IdxOwnerKeys \cup IdxAliasKeys :
                  AliasesStorage_get_alias(storage, k) = AliasesStorage_get_alias(pre, k)

\* the Alias Index was written under a key that the Owner Index also holds
NamespaceIsolationWitness ==
    /\ op.name = "aliases.set_alias"
    /\ op.key \in OwnerIndexKeys(pre)
    /\ op.key \in OwnerIndexKeys(storage)
    /\ op.key \in AliasIndexKeys(storage)

\* C20  Owner Index round trip: set_alias(bytes of a, s) followed by
\* get_alias(a) returns exactly the bytes of s, stored as the encoding of the
\* String s; after remove_alias(bytes of a), get_alias(a) returns absence.
OwnerIndexRoundTrip ==
    /\ op.name = "addresses_aliases.set_alias" =>
           /\ storage[PrefixedKey(ADDRESSES_ALIASES_PREFIX, op.key)] = Serialize("String", op.value)
           /\ AddressesAliasesStorage_get_alias(storage, op.key) = Some(op.value)
           /\ AddressesAliasesReadonlyStorage_get_alias(storage, op.key) = Some(op.value)
           /\ AddressesAliasesStorage_get_alias(
                  AddressesAliasesStorage_remove_alias(storage, op.key), op.key) = None
    /\ op.name = "addresses_aliases.remove_alias" =>
           /\ AddressesAliasesStorage_get_alias(storage, op.key) = None
           /\ AddressesAliasesReadonlyStorage_get_alias(storage, op.key) = None

\* an entry was set and then removed
OwnerIndexRoundTripWitness ==
    /\ op.name = "addresses_aliases.remove_alias"
    /\ op.key \in OwnerIndexKeys(pre)
    /\ Len(OwnerAliasAt(pre, op.key)) > 0
    /\ op.key \notin OwnerIndexKeys(storage)

\* C16  Absence handling in the adapter: for a key with no stored value, load
\* fails with NotFound carrying the name of the type asked for and may_load
\* returns Ok(None); for a key whose stored value decodes, both return that
\* decoded value; neither changes the store.
Stored(st, ns, key) == PrefixedKey(ns, key) \in DOMAIN st
Decodes(T, st, ns, key) ==
    Stored(st, ns, key) /\ Deserialize(T, st[PrefixedKey(ns, key)]).ok
DecodedAt(T, st, ns, key) == Deserialize(T, st[PrefixedKey(ns, key)]).val

LoadVersusMayLoad ==
    /\ op.name = "load" =>
           /\ storage = pre
           /\ ~Stored(pre, op.ns, op.key) =>
                  /\ result = [ok |-> FALSE, err |-> "NotFound", kind |-> op.T]
                  /\ may_load(op.T, pre, op.ns, op.key) = Ok(None)
           /\ Decodes(op.T, pre, op.ns, op.key) =>
                  /\ result = Ok(DecodedAt(op.T, pre, op.ns, op.key))
                  /\ may_load(op.T, pre, op.ns, op.key) = Ok(Some(result.val))
    /\ op.name = "may_load" =>
           /\ storage = pre
           /\ ~Stored(pre, op.ns, op.key) =>
                  /\ result = Ok(None)
                  /\ load(op.T, pre, op.ns, op.key)
                         = [ok |-> FALSE, err |-> "NotFound", kind |-> op.T]
           /\ Decodes(op.T, pre, op.ns, op.key) =>
                  /\ result = Ok(Some(DecodedAt(op.T, pre, op.ns, op.key)))
                  /\ load(op.T, pre, op.ns, op.key) = Ok(result.val.val)

\* load of an absent Alias from a store that holds another entry
LoadVersusMayLoadWitness ==
    /\ op.name = "load"
    /\ op.T = "Alias"
    /\ ~Stored(pre, op.ns, op.key)
    /\ pre # EmptyStore
    /\ ~result.ok
    /\ result.err = "NotFound"

\* C12  Failures are propagated as error values: a get on either index, whose
\* stored value does not decode at the type of the index, returns an error
\* value; it neither aborts the call nor returns absence.  (The serializers of
\* the two value types are total, so set has no failing save to report here.)
IsErrorValue(r) == "ok" \in DOMAIN r /\ ~r.ok

FailuresArePropagated ==
    /\ (op.name = "aliases.get_alias"
           /\ Stored(pre, ALIASES_PREFIX, op.key)
           /\ ~Decodes("Alias", pre, ALIASES_PREFIX, op.key)) => IsErrorValue(result)
    /\ (op.name = "addresses_aliases.get_alias"
           /\ Stored(pre, ADDRESSES_ALIASES_PREFIX, op.key)
           /\ ~Decodes("Vec<u8>", pre, ADDRESSES_ALIASES_PREFIX, op.key)) => IsErrorValue(result)

\* C11  No partial state is observable: every store a call starts from, a
\* search included, has both writes or neither write of every earlier create
\* and destroy; a store with one of the two writes exists only while the call
\* that makes them is in flight.
HalfApplied(st) == ~Consistent(st)

NoPartialStateObserved ==
    /\ pc = "idle" => ~HalfApplied(storage)
    /\ op.name \in {"create", "destroy", "search"} => ~HalfApplied(pre)
    /\ HalfApplied(storage) => pc \in {"create_owner", "destroy_owner"}

\* a search ran on a store that a two-write create had filled
NoPartialStateObservedWitness ==
    /\ op.name = "search"
    /\ pc = "idle"
    /\ result.ok
    /\ AliasIndexKeys(pre) # {}
    /\ OwnerIndexKeys(pre) # {}

\* C19  Fixed write order: in a create the Alias Index entry is written
\* before the Owner Index entry, in a destroy the Alias Index entry is removed
\* before the Owner Index entry; between the two writes of a create the store
\* is the one the call started from plus the Alias Index entry, between the
\* two writes of a destroy it is that store less the Alias Index entry.
FixedWriteOrder ==
    /\ pc \in {"create_alias", "destroy_alias"} => storage = pre
    /\ pc = "create_owner" =>
           /\ DOMAIN storage = (DOMAIN pre) \cup {PrefixedKey(ALIASES_PREFIX, op.alias)}
           /\ \A k \in DOMAIN pre : storage[k] = pre[k]
           /\ AliasRecordAt(storage, op.alias) = Alias(op.caller, op.avatar)
           /\ op.caller \notin OwnerIndexKeys(storage)
    /\ pc = "destroy_owner" =>
           /\ DOMAIN storage = (DOMAIN pre) \ {PrefixedKey(ALIASES_PREFIX, op.alias)}
           /\ \A k \in DOMAIN storage : storage[k] = pre[k]
           /\ op.alias \notin AliasIndexKeys(storage)
           /\ op.caller \in OwnerIndexKeys(storage)
           /\ OwnerAliasAt(storage, op.caller) = op.alias
    /\ (pc = "idle" /\ op.name = "create" /\ result.ok) =>
           storage = create(pre, op.caller, op.alias, op.avatar).store
    /\ (pc = "idle" /\ op.name = "destroy" /\ result.ok) =>
           storage = destroy(pre, op.caller, op.alias).store

\* a destroy is between its two removes while another alias is claimed
FixedWriteOrderWitness ==
    /\ pc = "destroy_owner"
    /\ op.alias \notin AliasIndexKeys(storage)
    /\ op.caller \in OwnerIndexKeys(storage)
    /\ AliasIndexKeys(storage) # {}

====
